---------------------------- MODULE Spec2Model ----------------------------
(***************************************************************************)
(* Order-brushing detector (python_script/orderbrush.py, class Orderbrush). *)
(*                                                                         *)
(* The state is that of one Orderbrush object and of one call of           *)
(* get_suspicious_shop_users(): the time-sorted transaction array, the     *)
(* sorted array of shop ids, the position of the loop over the shops, and  *)
(* inside it the locals of __get_suspicious_orders__ (cons, the row of the *)
(* greedy scan, suspicious_orders, last_upper_time) and the result         *)
(* dictionary shopList.                                                    *)
(***************************************************************************)
EXTENDS Integers, Sequences, FiniteSets, TLC

VARIABLES
    data,               \* self.__data: rows [orderId, shopId, userId, event_time]
    UNIQUE_SHOP_ID,     \* self.__UNIQUE_SHOP_ID: ascending tuple of shop ids
    pc,                 \* "shop" (head of the for-loop over shops), "scan", "done"
    shopIdx,            \* number of shops the for-loop has taken so far
    cons,               \* cons of __get_suspicious_orders__ for the current shop
    row,                \* row of the greedy scan (1-based)
    suspicious_orders,  \* set of <<orderId, userId>>
    last_upper_time,    \* upper bound of the last accepted window
    shopList,           \* result dictionary: shopId -> verdict
    windows             \* history: the accepted windows of the current scan

vars == <<data, UNIQUE_SHOP_ID, pc, shopIdx, cons, row, suspicious_orders,
          last_upper_time, shopList, windows>>

----------------------------------------------------------------------------
(* Program constants *)

ONE_HOUR == 3600

THRESHOLD == 3

(* Bounds of the model *)

MaxOrders == 4

MaxShopOrders == 6

Shops == {1, 2}

OneShop == {1}

Users == {1, 2}

\* event times: 0 (the initial value of last_upper_time), times inside one
\* hour, and the two sides of the inclusive end of the window opened at 100
Times == {0, 100, 200, 300, 3700, 3701}

\* event times of the two-shop arrays: a time before 0 as well
TimesMulti == {-100, 0, 100, 3700}

----------------------------------------------------------------------------
(* Helpers *)

Range(s) == {s[i] : i \in DOMAIN s}

Min(S) == CHOOSE m \in S : \A x \in S : m <= x

\* np.unique: the distinct values in ascending order
RECURSIVE Unique(_)
Unique(S) == IF S = {} THEN <<>> ELSE <<Min(S)>> \o Unique(S \ {Min(S)})

\* what np.argsort of column 3 leaves in self.__data: event_time ascending
Ascending(ts) == \A i \in DOMAIN ts : \A j \in DOMAIN ts : i < j => ts[i] <= ts[j]

\* the array of n rows with the given columns, one row per orderId
Rows(n, ss, us, ts) ==
    [i \in 1..n |-> [orderId |-> i, shopId |-> ss[i], userId |-> us[i], event_time |-> ts[i]]]

----------------------------------------------------------------------------
(* Pure functions of the class *)

\* the Python value None, and a tuple of user ids
None == [isNone |-> TRUE, users |-> <<>>]

Tuple(us) == [isNone |-> FALSE, users |-> us]

\* a plausible slip: the boolean mask of the shop is left out
GetShopTransactionNoMask(d, shop) ==
    [i \in 1..Len(d) |->
        [orderId |-> d[i].orderId, userId |-> d[i].userId, event_time |-> d[i].event_time]]

GetShopTransaction(d, shop) ==
    LET rows == SelectSeq(d, LAMBDA r : r.shopId = shop)
    IN  [i \in 1..Len(rows) |->
            [orderId |-> rows[i].orderId, userId |-> rows[i].userId,
             event_time |-> rows[i].event_time]]

\* a plausible slip: the number of orders, not divided by the distinct users
SingleConcentrationCount(userId) == Len(userId)

SingleConcentration(userId) ==
    IF Len(userId) = 0 THEN 0
    ELSE Len(userId) \div Cardinality(Range(userId))

\* a plausible slip: the end of the hour excluded
NextHourExclusive(e, t) == e >= t /\ e < t + ONE_HOUR

NextHour(e, t) == e >= t /\ e <= t + ONE_HOUR

Concentration(transactions) ==
    [i \in 1..Len(transactions) |->
        LET t == transactions[i].event_time
            sel == SelectSeq(transactions, LAMBDA r : NextHour(r.event_time, t))
            userId == [k \in 1..Len(sel) |-> sel[k].userId]
        IN  [orderId |-> transactions[i].orderId,
             userId |-> transactions[i].userId,
             concentration |-> SingleConcentration(userId),
             event_time |-> t]]

\* a plausible slip: a lower threshold
IsTriggerTwo(c) == c.concentration >= 2

IsTrigger(c) == c.concentration >= THRESHOLD

\* a plausible slip: a strict comparison
CoveredStrict(suspicious_time, last) == suspicious_time < last

Covered(suspicious_time, last) == suspicious_time <= last

\* a plausible slip: the end of the period excluded
BadOrdersExclusive(cs, suspicious_time, upper_time) ==
    LET sel == SelectSeq(cs, LAMBDA c : suspicious_time <= c.event_time
                                        /\ c.event_time < upper_time)
    IN  {<<sel[k].orderId, sel[k].userId>> : k \in 1..Len(sel)}

BadOrders(cs, suspicious_time, upper_time) ==
    LET sel == SelectSeq(cs, LAMBDA c : suspicious_time <= c.event_time
                                        /\ c.event_time <= upper_time)
    IN  {<<sel[k].orderId, sel[k].userId>> : k \in 1..Len(sel)}

\* a plausible slip: only the first user of maximal count (argmax)
VerdictFirstMax(bad_order) ==
    IF Cardinality(bad_order) = 0 THEN None
    ELSE LET users == Unique({p[2] : p \in bad_order})
             count(u) == Cardinality({p \in bad_order : p[2] = u})
             best == {u \in Range(users) : \A w \in Range(users) : count(w) <= count(u)}
         IN  Tuple(<<Min(best)>>)

\* lines 191-206: None for no suspicious order, else the users whose number
\* of suspicious orders is the maximum, in np.unique's ascending order
Verdict(bad_order) ==
    IF Cardinality(bad_order) = 0 THEN None
    ELSE LET users == Unique({p[2] : p \in bad_order})
             counts == [k \in 1..Len(users) |->
                           Cardinality({p \in bad_order : p[2] = users[k]})]
             maxCount == CHOOSE m \in Range(counts) : \A c \in Range(counts) : c <= m
             keep == {k \in 1..Len(users) : counts[k] = maxCount}
         IN  Tuple(Unique({users[k] : k \in keep}))

\* __get_suspicious_orders__ as a function of one shop's transactions: the
\* greedy scan from row r with the last upper time and the orders found so far
RECURSIVE Scan(_, _, _, _)
Scan(cs, r, last, found) ==
    IF r > Len(cs) THEN found
    ELSE IF IsTrigger(cs[r]) /\ ~Covered(cs[r].event_time, last)
         THEN Scan(cs, r + 1, cs[r].event_time + ONE_HOUR,
                   found \cup BadOrders(cs, cs[r].event_time, cs[r].event_time + ONE_HOUR))
         ELSE Scan(cs, r + 1, last, found)

GetSuspiciousOrders(transactions) == Scan(Concentration(transactions), 1, 0, {})

\* get_suspicious_shop_users as a function of the sorted array
GetSuspiciousShopUsers(d) ==
    [s \in {d[i].shopId : i \in DOMAIN d} |->
        Verdict(GetSuspiciousOrders(GetShopTransaction(d, s)))]

----------------------------------------------------------------------------
(* State machine *)

Start(d) ==
    /\ data = d
    /\ UNIQUE_SHOP_ID = Unique({d[i].shopId : i \in DOMAIN d})
    /\ pc = "shop"
    /\ shopIdx = 0
    /\ cons = <<>>
    /\ row = 1
    /\ suspicious_orders = {}
    /\ last_upper_time = 0
    /\ shopList = <<>>
    /\ windows = <<>>

\* the object after __init__: rows of equal time may stand in any order
Arrays(max, shops, times) ==
    \E n \in 0..max : \E ts \in [1..n -> times] :
        /\ Ascending(ts)
        /\ \E ss \in [1..n -> shops] : \E us \in [1..n -> Users] : Start(Rows(n, ss, us, ts))

Init == Arrays(MaxOrders, Shops, TimesMulti)

InitShop == Arrays(MaxShopOrders, OneShop, Times)

shopId == UNIQUE_SHOP_ID[shopIdx]

BeginShop ==
    /\ pc = "shop"
    /\ shopIdx < Len(UNIQUE_SHOP_ID)
    /\ shopIdx' = shopIdx + 1
    /\ cons' = Concentration(GetShopTransaction(data, UNIQUE_SHOP_ID[shopIdx + 1]))
    /\ row' = 1
    /\ suspicious_orders' = {}
    /\ last_upper_time' = 0
    /\ windows' = <<>>
    /\ pc' = "scan"
    /\ UNCHANGED <<data, UNIQUE_SHOP_ID, shopList>>

NotTrigger ==
    /\ pc = "scan"
    /\ row <= Len(cons)
    /\ ~IsTrigger(cons[row])
    /\ row' = row + 1
    /\ UNCHANGED <<data, UNIQUE_SHOP_ID, pc, shopIdx, cons, suspicious_orders,
                   last_upper_time, shopList, windows>>

\* a plausible slip: the skipped trigger extends the covered period (a merge)
SkipTriggerMerging ==
    /\ pc = "scan"
    /\ row <= Len(cons)
    /\ IsTrigger(cons[row])
    /\ Covered(cons[row].event_time, last_upper_time)
    /\ row' = row + 1
    /\ last_upper_time' = cons[row].event_time + ONE_HOUR
    /\ UNCHANGED <<data, UNIQUE_SHOP_ID, pc, shopIdx, cons, suspicious_orders,
                   shopList, windows>>

SkipTrigger ==
    /\ pc = "scan"
    /\ row <= Len(cons)
    /\ IsTrigger(cons[row])
    /\ Covered(cons[row].event_time, last_upper_time)
    /\ row' = row + 1
    /\ UNCHANGED <<data, UNIQUE_SHOP_ID, pc, shopIdx, cons, suspicious_orders,
                   last_upper_time, shopList, windows>>

AcceptTrigger ==
    /\ pc = "scan"
    /\ row <= Len(cons)
    /\ IsTrigger(cons[row])
    /\ ~Covered(cons[row].event_time, last_upper_time)
    /\ LET suspicious_time == cons[row].event_time
           upper_time == suspicious_time + ONE_HOUR
           bad_orders == BadOrders(cons, suspicious_time, upper_time)
       IN  /\ suspicious_orders' = suspicious_orders \cup bad_orders
           /\ last_upper_time' = upper_time
           /\ windows' = Append(windows, [row |-> row, start |-> suspicious_time,
                                          upper |-> upper_time, added |-> bad_orders])
    /\ row' = row + 1
    /\ UNCHANGED <<data, UNIQUE_SHOP_ID, pc, shopIdx, cons, shopList>>

FinishShop ==
    /\ pc = "scan"
    /\ row > Len(cons)
    /\ shopList' = shopList @@ (shopId :> Verdict(suspicious_orders))
    /\ pc' = "shop"
    /\ UNCHANGED <<data, UNIQUE_SHOP_ID, shopIdx, cons, row, suspicious_orders,
                   last_upper_time, windows>>

Return ==
    /\ pc = "shop"
    /\ shopIdx = Len(UNIQUE_SHOP_ID)
    /\ pc' = "done"
    /\ UNCHANGED <<data, UNIQUE_SHOP_ID, shopIdx, cons, row, suspicious_orders,
                   last_upper_time, shopList, windows>>

Next ==
    \/ BeginShop
    \/ NotTrigger
    \/ SkipTrigger
    \/ AcceptTrigger
    \/ FinishShop
    \/ Return

Spec == Init /\ [][Next]_vars

SpecShop == InitShop /\ [][Next]_vars

----------------------------------------------------------------------------
(* Properties *)

\* the verdict of shop shopId has just been stored; the locals of its scan
\* (cons, suspicious_orders, windows) still hold
Finished == pc \in {"shop", "done"} /\ shopIdx >= 1

Pair(c) == <<c.orderId, c.userId>>

CountOf(u) == Cardinality({p \in suspicious_orders : p[2] = u})

SuspiciousUsers == {p[2] : p \in suspicious_orders}

\* the scan stands at a trigger row that it is about to skip / to accept
SkipsHere ==
    /\ pc = "scan" /\ row <= Len(cons)
    /\ cons[row].concentration >= 3
    /\ cons[row].event_time <= last_upper_time

AcceptsHere ==
    /\ pc = "scan" /\ row <= Len(cons)
    /\ cons[row].concentration >= 3
    /\ cons[row].event_time > last_upper_time

\* C1: the verdict of a shop is None exactly when its set of suspicious pairs
\* is empty; otherwise it holds exactly the users whose number of suspicious
\* pairs is the maximum over the shop's users (all tied users, no lesser one).
C1_VerdictIsMaxUsers ==
    Finished =>
        LET v == shopList[shopId]
        IN  /\ v.isNone <=> suspicious_orders = {}
            /\ ~v.isNone =>
                 Range(v.users) = {u \in SuspiciousUsers :
                                      \A w \in SuspiciousUsers : CountOf(w) <= CountOf(u)}

C1_Witness ==
    /\ Finished
    /\ Cardinality(Range(shopList[shopId].users)) = 2
    /\ CountOf(1) = CountOf(2)

\* C2: one concentration record per transaction of the shop, in the same
\* order; its concentration is floor(count / distinct) over the shop's
\* transactions with t <= event_time <= t + 3600, and is at least 1.
C2_ConcentrationIsFloorRatio ==
    pc = "scan" =>
        LET tr == GetShopTransaction(data, shopId)
        IN  /\ Len(cons) = Len(tr)
            /\ \A i \in 1..Len(tr) :
                 LET t == tr[i].event_time
                     window == {j \in 1..Len(tr) : t <= tr[j].event_time
                                                   /\ tr[j].event_time <= t + 3600}
                     count == Cardinality(window)
                     distinct == Cardinality({tr[j].userId : j \in window})
                 IN  /\ cons[i].orderId = tr[i].orderId
                     /\ cons[i].userId = tr[i].userId
                     /\ cons[i].event_time = t
                     /\ cons[i].concentration = count \div distinct
                     /\ cons[i].concentration >= 1

C2_Witness ==
    /\ pc = "scan"
    /\ Len(cons) = 3
    /\ cons[1].concentration = 3
    /\ cons[3].event_time = cons[1].event_time + 3600

\* C3 as stated: with an accepted window and a later trigger whose time lies
\* in it, no order after the window's upper time and up to the later
\* trigger's time + 3600 is in the result set.
C3_ExtendedRangeNeverInResult ==
    Finished =>
        \A k \in DOMAIN windows : \A i \in DOMAIN cons :
            (/\ i > windows[k].row
             /\ cons[i].concentration >= 3
             /\ windows[k].start <= cons[i].event_time
             /\ cons[i].event_time <= windows[k].upper)
            => \A j \in DOMAIN cons :
                 (/\ windows[k].upper < cons[j].event_time
                  /\ cons[j].event_time <= cons[i].event_time + 3600)
                 => Pair(cons[j]) \notin suspicious_orders

\* the suspicious set holds exactly the orders inside an accepted window
InAcceptedWindows ==
    \A j \in DOMAIN cons :
        Pair(cons[j]) \in suspicious_orders
        <=> \E k \in DOMAIN windows : /\ windows[k].start <= cons[j].event_time
                                      /\ cons[j].event_time <= windows[k].upper

\* C3 (amended): a trigger whose time is <= last_upper_time is skipped
\* entirely: the step adds no pair and leaves last_upper_time unchanged; and
\* an order is in the result set exactly when its time lies in the window of
\* an accepted trigger, so an order in a skipped trigger's extended range is
\* in the result only if a later accepted trigger covers it.
C3_SkippedTriggerAddsNothing ==
    /\ [][SkipsHere => /\ suspicious_orders' = suspicious_orders
                       /\ last_upper_time' = last_upper_time
                       /\ row' = row + 1]_vars
    /\ []InAcceptedWindows

C3_Witness ==
    /\ Finished
    /\ \E k \in DOMAIN windows : \E i \in DOMAIN cons : \E j \in DOMAIN cons :
         /\ i > windows[k].row
         /\ cons[i].concentration >= 3
         /\ cons[i].event_time > windows[k].start
         /\ cons[i].event_time <= windows[k].upper
         /\ windows[k].upper < cons[j].event_time
         /\ cons[j].event_time <= cons[i].event_time + 3600
         /\ Pair(cons[j]) \notin suspicious_orders

\* C4: whenever the scan skips a trigger record, the record is already
\* covered: its own pair is in the suspicious set at that moment.
C4_SkippedIsCovered ==
    SkipsHere => Pair(cons[row]) \in suspicious_orders

\* C5: a shop with exactly 4 orders of one user at times 0, 100, 200, 300:
\* the order at 0 has concentration 4, the accepted window is [0, 3600], all
\* 4 pairs are suspicious and the verdict is that user.
C5_FourOrdersExample ==
    (/\ Finished
     /\ Len(cons) = 4
     /\ <<cons[1].event_time, cons[2].event_time, cons[3].event_time, cons[4].event_time>>
          = <<0, 100, 200, 300>>
     /\ \A i \in 1..4 : cons[i].userId = cons[1].userId)
    => /\ cons[1].concentration = 4
       /\ \E k \in DOMAIN windows : windows[k].start = 0 /\ windows[k].upper = 3600
       /\ \A i \in 1..4 : Pair(cons[i]) \in suspicious_orders
       /\ shopList[shopId] = Tuple(<<cons[1].userId>>)

\* C6: accepting a trigger at time s adds exactly the pairs of the records of
\* the whole list with s <= event_time <= s + 3600 (s + 3600 in, s + 3601
\* out) and sets last_upper_time to s + 3600.
C6_AcceptAddsInclusiveWindow ==
    [][AcceptsHere =>
         LET s == cons[row].event_time
         IN  /\ suspicious_orders' =
                  suspicious_orders \cup
                  {Pair(cons[j]) : j \in {j \in DOMAIN cons : /\ s <= cons[j].event_time
                                                              /\ cons[j].event_time <= s + 3600}}
             /\ last_upper_time' = s + 3600]_vars

C6_Witness ==
    /\ windows # <<>>
    /\ last_upper_time = windows[Len(windows)].upper
    /\ \E j \in DOMAIN cons : /\ cons[j].event_time = last_upper_time
                              /\ Pair(cons[j]) \in suspicious_orders
    /\ \E j \in DOMAIN cons : /\ cons[j].event_time = last_upper_time + 1
                              /\ Pair(cons[j]) \notin suspicious_orders

\* the arrays an Orderbrush built from the transactions of one shop alone can
\* hold: these rows by ascending time, rows of equal time in any order
AloneArrays(shop) ==
    LET own == SelectSeq(data, LAMBDA r : r.shopId = shop)
        all == {[i \in 1..Len(own) |-> own[p[i]]] : p \in Permutations(1..Len(own))}
    IN  {a \in all : Ascending([i \in 1..Len(a) |-> a[i].event_time])}

\* C7: the returned dictionary has exactly one entry per shop id of the
\* input, and the verdict of each shop is the one returned for that shop's
\* transactions alone.
C7_ShopIndependence ==
    pc = "done" =>
        /\ DOMAIN shopList = {data[i].shopId : i \in DOMAIN data}
        /\ \A shop \in DOMAIN shopList : \A a \in AloneArrays(shop) :
             /\ DOMAIN GetSuspiciousShopUsers(a) = {shop}
             /\ GetSuspiciousShopUsers(a)[shop] = shopList[shop]

C7_Witness ==
    /\ pc = "done"
    /\ DOMAIN shopList = {1, 2}
    /\ ~shopList[1].isNone
    /\ shopList[2].isNone
    /\ \E i \in DOMAIN data : \E j \in DOMAIN data : \E k \in DOMAIN data :
         i < j /\ j < k /\ data[i].shopId = 1 /\ data[j].shopId = 2 /\ data[k].shopId = 1

\* C8: a shop all of whose concentrations are below 3 gets None; a shop with
\* one transaction has concentration 1 and gets None.
C8_AbsentBelowThreshold ==
    Finished =>
        /\ (\A i \in DOMAIN cons : cons[i].concentration < 3) => shopList[shopId] = None
        /\ Len(cons) = 1 => cons[1].concentration = 1 /\ shopList[shopId] = None

C8_Witness ==
    /\ Finished
    /\ Len(cons) >= 2
    /\ \E i \in DOMAIN cons : cons[i].concentration = 2
    /\ \A i \in DOMAIN cons : cons[i].concentration < 3
    /\ shopList[shopId] = None

C9_ScanState ==
    /\ last_upper_time = IF windows = <<>> THEN 0
                         ELSE windows[Len(windows)].start + 3600
    /\ \A k \in DOMAIN windows :
         /\ windows[k].upper = windows[k].start + 3600
         /\ k > 1 => windows[k].start > windows[k - 1].upper
         /\ \A m \in DOMAIN windows : m # k => windows[m].added \cap windows[k].added = {}

\* C9: during a scan last_upper_time never decreases; it is 0 or the time of
\* the last accepted trigger + 3600; each accepted trigger's time is greater
\* than the previous window's upper time, and no pair is added by two
\* accepted windows.
C9_GreedyScanInvariant ==
    /\ []C9_ScanState
    /\ [][pc = "scan" => last_upper_time' >= last_upper_time]_vars

C9_Witness ==
    /\ Finished
    /\ Len(windows) = 2
    /\ windows[1].added # {}
    /\ windows[2].added # {}

\* C10: a shop with a verdict other than None has at least 3 suspicious
\* pairs, every user of the verdict has at least 3 of them, and is the user
\* of a transaction of that shop.
C10_VerdictUsersHaveThree ==
    (Finished /\ ~shopList[shopId].isNone) =>
        /\ Cardinality(suspicious_orders) >= 3
        /\ \A u \in Range(shopList[shopId].users) :
             /\ CountOf(u) >= 3
             /\ \E i \in DOMAIN data : data[i].shopId = shopId /\ data[i].userId = u

C10_Witness ==
    /\ Finished
    /\ shopList[shopId] = Tuple(<<2>>)
    /\ CountOf(2) = 3
    /\ CountOf(1) = 0
    /\ \E i \in DOMAIN data : data[i].userId = 1

=============================================================================
